---- MODULE Spec2Model ----
(***************************************************************************)
(* Pairly: the anonymous chat matchmaking core.                            *)
(*                                                                         *)
(* The store is one SQLite database (WAL mode).  Every request handler is  *)
(* a coroutine that opens a fresh connection per database call, so the     *)
(* handlers of different updates interleave at every await.  The two       *)
(* multi-statement operations, create_match_atomic and end_chat_atomic,    *)
(* run inside BEGIN IMMEDIATE ... COMMIT: their statements act on a        *)
(* private image of the store (txn) that only COMMIT publishes, and the    *)
(* write lock they hold keeps every other writer waiting.  A statement of  *)
(* a transaction may raise (lock timeout, I/O error); a single-statement   *)
(* write outside a transaction waits for the lock and then succeeds.       *)
(*                                                                         *)
(* The sunflower ledger is an append-only table read and written by        *)
(* single statements without a transaction around them; its operations are *)
(* analysed in a specification of their own (SpecLedger).                  *)
(*                                                                         *)
(* Not in the source tree and modelled from the specification: the table   *)
(* constraints of schema.sql, services.matcher, db.ratings and the         *)
(* settings of config.                                                     *)
(***************************************************************************)
EXTENDS Integers, FiniteSets, Sequences, Bags, TLC

(* ---------------------------- bounds ----------------------------------- *)
NumUsers == 3
MaxTasks == 2
MaxOps   == 4
MaxTime  == 1
MaxGames == 1
\* The largest amount of one ledger operation.
MaxAmount == 2
MaxHalfDays == 31

(* --------------------------- constants --------------------------------- *)
NULL == 0
MATCH_HISTORY_WINDOW_SECONDS == 1

Users == 1 .. NumUsers
Tasks == 1 .. MaxTasks
UserOrNull == Users \cup {NULL}

NEW_      == "NEW"
AGREED    == "AGREED"
IDLE      == "IDLE"
SEARCHING == "SEARCHING"
CHATTING  == "CHATTING"
RATING    == "RATING"
UserState == {NEW_, AGREED, IDLE, SEARCHING, CHATTING, RATING}

GenderPrefs == {"any", "male", "female"}

(* Fixed user attributes (columns users.gender and users.premium_until,    *)
(* which no modelled handler writes).                                      *)
gender(u) == IF u % 2 = 1 THEN "male" ELSE "female"
is_premium(u) == u = 1

VARIABLES
    db,      \* the committed store: one field per table
    lock,    \* the task holding the write lock of BEGIN IMMEDIATE, or NULL
    txn,     \* <<image>> of the store inside the open transaction, or <<>>
    task,    \* the running handlers: position and local variables
    now,     \* the wall clock
    ops,     \* handlers started so far
    prompts  \* rating prompts shown: <<rater, rated>>

vars == <<db, lock, txn, task, now, ops, prompts>>

(* ----------------------- rows and table reads -------------------------- *)
InChat(d, u) == \E c \in d.active_chats : c.user_a = u \/ c.user_b = u

ChatsOfPair(d, a, b) ==
    {c \in d.active_chats :
        (c.user_a = a /\ c.user_b = b) \/ (c.user_a = b /\ c.user_b = a)}

InPool(d, u) == \E w \in d.waiting_users : w.user_id = u

MinOf(S) == CHOOSE x \in S : \A y \in S : x <= y

user_exists(d, u) == u \in DOMAIN d.current_state

get_user_state(d, u) == IF user_exists(d, u) THEN d.current_state[u] ELSE "NONE"

get_partner(d, u) == IF user_exists(d, u) THEN d.partner_id[u] ELSE NULL

\* The columns the candidate query selects (rating and rating_count are not
\* modelled); gender_preference is not among them.
candidate_row(w) ==
    [user_id |-> w.user_id, gender |-> w.gender, is_premium |-> w.is_premium,
     joined_at |-> w.joined_at]

\* A candidate query whose cooldown also covers a row exactly at the cutoff.
get_waiting_candidates_inclusive(d, u, t) ==
    LET cutoff_time == t - MATCH_HISTORY_WINDOW_SECONDS
        recent == {h.partner_id : h \in {r \in d.match_history :
                        r.user_id = u /\ r.last_matched_at >= cutoff_time}}
    IN  {candidate_row(w) : w \in {x \in d.waiting_users :
                                      x.user_id # u /\ x.user_id \notin recent}}

get_waiting_candidates(d, u, t) ==
    LET cutoff_time == t - MATCH_HISTORY_WINDOW_SECONDS
        recent == {h.partner_id : h \in {r \in d.match_history :
                        r.user_id = u /\ r.last_matched_at > cutoff_time}}
    IN  {candidate_row(w) : w \in {x \in d.waiting_users :
                                      x.user_id # u /\ x.user_id \notin recent}}

(* ------------------------------ schema --------------------------------- *)
\* active_chats has no key besides chat_id: a plain INSERT always adds a row.
active_chats_insert(rows, row) == rows \cup {row}

\* pending_ratings has no key over (rater_id, rated_user_id): a plain INSERT
\* adds a row each time, so the table is a bag.
pending_ratings_insert(rows, rater, rated) == rows (+) SetToBag({<<rater, rated>>})

\* users.user_id is the key of users: a plain INSERT for a user_id that has
\* a row raises and adds nothing.
users_insert(d, u, state) ==
    IF user_exists(d, u) THEN d
    ELSE [d EXCEPT
            !.current_state = [x \in DOMAIN @ \cup {u} |-> IF x = u THEN state ELSE @[x]],
            !.partner_id    = [x \in DOMAIN @ \cup {u} |-> IF x = u THEN NULL ELSE @[x]]]

(* ------------------------ single statements ---------------------------- *)
\* An INSERT OR REPLACE: the row of an existing user is written anew.
create_user_replaces(d, u) ==
    [d EXCEPT
        !.current_state = [x \in DOMAIN @ \cup {u} |-> IF x = u THEN NEW_ ELSE @[x]],
        !.partner_id    = [x \in DOMAIN @ \cup {u} |-> IF x = u THEN NULL ELSE @[x]]]

\* INSERT INTO users (user_id, gender, current_state) VALUES (u, ., 'NEW')
create_user(d, u) == users_insert(d, u, NEW_)

\* UPDATE users SET current_state = to WHERE user_id = u AND current_state = from
TransitionApplies(d, u, from) == user_exists(d, u) /\ d.current_state[u] = from

\* An update without the current_state condition of the WHERE clause.
transition_unchecked(d, u, from, to) ==
    IF user_exists(d, u) THEN [d EXCEPT !.current_state[u] = to] ELSE d

\* An update that is lost.
transition_lost(d, u, from, to) == d

transition_state(d, u, from, to) ==
    IF TransitionApplies(d, u, from)
    THEN [d EXCEPT !.current_state[u] = to]
    ELSE d

\* The row join_waiting_pool writes for user u.
waiting_row(u, pref, t) ==
    [user_id |-> u, gender |-> gender(u), is_premium |-> is_premium(u),
     gender_preference |-> pref, joined_at |-> t]

\* An INSERT that keeps the user's earlier entry.
join_keeps_entry(d, u, pref, t) ==
    [d EXCEPT !.waiting_users = @ \cup {waiting_row(u, pref, t)}]

\* A join that does not reach the table.
join_skipped(d, u, pref, t) == d

\* INSERT OR REPLACE INTO waiting_users
join_waiting_pool(d, u, pref, t) ==
    [d EXCEPT !.waiting_users =
        {w \in @ : w.user_id # u}
        \cup {waiting_row(u, pref, t)}]

\* DELETE FROM waiting_users WHERE user_id = u
leave_waiting_pool(d, u) ==
    [d EXCEPT !.waiting_users = {w \in @ : w.user_id # u}]

(* ---------------- statements of create_match_atomic -------------------- *)
\* DELETE FROM waiting_users WHERE user_id IN (a, b)
cm_delete_waiting(d, a, b) ==
    [d EXCEPT !.waiting_users = {w \in @ : w.user_id \notin {a, b}}]

\* INSERT INTO active_chats (user_a, user_b, started_at); lastrowid
cm_insert_chat(d, a, b) ==
    [d EXCEPT !.active_chats =
                  active_chats_insert(@, [chat_id |-> d.chat_seq + 1,
                                          user_a |-> a, user_b |-> b]),
              !.chat_seq = @ + 1]

\* UPDATE users SET partner_id = p, current_state = 'CHATTING' WHERE user_id = u
cm_update_user(d, u, p) ==
    IF user_exists(d, u)
    THEN [d EXCEPT !.partner_id[u] = p, !.current_state[u] = CHATTING]
    ELSE d

\* An INSERT that keeps the earlier row of the directed pair.
cm_insert_history_keeps_row(d, u, p, t) ==
    [d EXCEPT !.match_history =
        @ \cup {[user_id |-> u, partner_id |-> p, last_matched_at |-> t]}]

\* INSERT OR REPLACE INTO match_history (user_id, partner_id, last_matched_at)
cm_insert_history(d, u, p, t) ==
    [d EXCEPT !.match_history =
        {h \in @ : ~(h.user_id = u /\ h.partner_id = p)}
        \cup {[user_id |-> u, partner_id |-> p, last_matched_at |-> t]}]

(* ------------------ statements of end_chat_atomic ---------------------- *)
\* SELECT chat_id FROM active_chats WHERE (a, b) or (b, a); fetchone
ec_select_chat(d, a, b) ==
    IF ChatsOfPair(d, a, b) = {} THEN NULL
    ELSE MinOf({c.chat_id : c \in ChatsOfPair(d, a, b)})

\* UPDATE active_games SET ended_at = now WHERE chat_id = ? AND winner_id IS NULL
ec_end_game(d, cid) ==
    [d EXCEPT !.active_games =
        {IF g.chat_id = cid /\ g.winner_id = NULL
         THEN [g EXCEPT !.ended = TRUE] ELSE g : g \in @}]

\* DELETE FROM active_chats WHERE chat_id = ?
ec_delete_chat(d, cid) ==
    [d EXCEPT !.active_chats = {c \in @ : c.chat_id # cid}]

\* A clearing that reaches the first user only.
ec_clear_first_partner(d, a, b) ==
    [d EXCEPT !.partner_id =
        [u \in DOMAIN @ |-> IF u = a THEN NULL ELSE @[u]]]

\* UPDATE users SET partner_id = NULL WHERE user_id IN (a, b)
ec_clear_partners(d, a, b) ==
    [d EXCEPT !.partner_id =
        [u \in DOMAIN @ |-> IF u \in {a, b} THEN NULL ELSE @[u]]]

\* INSERT INTO pending_ratings (rater_id, rated_user_id) VALUES (a, b), (b, a)
ec_insert_pending(d, a, b) ==
    [d EXCEPT !.pending_ratings =
        pending_ratings_insert(pending_ratings_insert(@, a, b), b, a)]

(* --------------------------- sunflower ledger -------------------------- *)
Sources == {"streak", "game", "gift", "rating"}

Max2(a, b) == IF a >= b THEN a ELSE b

Min2(a, b) == IF a <= b THEN a ELSE b

\* SUM(amount) over the rows of a bag of ledger rows <<user, source, amount>>.
RECURSIVE SumRows(_, _)
SumRows(rows, ledger) ==
    IF rows = {} THEN 0
    ELSE LET r == CHOOSE x \in rows : TRUE
         IN  r[3] * CopiesIn(r, ledger) + SumRows(rows \ {r}, ledger)

\* SELECT SUM(amount) ... WHERE user_id = u, for the group of source s.
LedgerSum(d, u, s) ==
    SumRows({r \in BagToSet(d.sunflower_ledger) : r[1] = u /\ r[2] = s},
            d.sunflower_ledger)

\* INSERT INTO sunflower_ledger (user_id, source, amount)
ledger_insert(d, u, s, amount) ==
    [d EXCEPT !.sunflower_ledger = @ (+) SetToBag({<<u, s, amount>>})]

\* The dict before a balance has been read.
NoBalance == [streak |-> 0, game |-> 0, gift |-> 0, rating |-> 0, total |-> 0]

\* A balance that reports the sums as they are.
get_sunflower_balance_unfloored(d, u) ==
    LET b == [s \in Sources |-> LedgerSum(d, u, s)]
    IN  [streak |-> b["streak"], game |-> b["game"], gift |-> b["gift"],
         rating |-> b["rating"],
         total  |-> b["streak"] + b["game"] + b["gift"] + b["rating"]]

\* balance[source] = max(0, SUM(amount)); balance['total'] = sum of the four.
get_sunflower_balance(d, u) ==
    LET b == [s \in Sources |-> Max2(0, LedgerSum(d, u, s))]
    IN  [streak |-> b["streak"], game |-> b["game"], gift |-> b["gift"],
         rating |-> b["rating"],
         total  |-> b["streak"] + b["game"] + b["gift"] + b["rating"]]

add_sunflowers(d, u, amount, source) ==
    IF amount <= 0 THEN d ELSE ledger_insert(d, u, source, amount)

remove_sunflowers(d, u, amount, source) ==
    IF amount <= 0 THEN d ELSE ledger_insert(d, u, source, 0 - amount)

\* A deduction that takes the whole remainder from the source.
ds_deduct_all(available, remaining, first) ==
    IF (first \/ remaining > 0) /\ available > 0 THEN remaining ELSE 0

\* deduct_sunflowers_smart, one source: "if [remaining > 0 and]
\* balance[source] > 0: deduct = min(balance[source], remaining)"; the test
\* of remaining is absent for the first source.
ds_deduct(available, remaining, first) ==
    IF (first \/ remaining > 0) /\ available > 0
    THEN Min2(available, remaining)
    ELSE 0

\* An order that spends the streak sunflowers first.
DebitOrderStreakFirst == <<"streak", "gift", "rating", "game">>

\* The order in which deduct_sunflowers_smart visits the sources.
DebitOrder == <<"game", "gift", "rating", "streak">>

\* deduct_sunflowers_smart(u, amount) run without interruption on store d:
\* the returned value and the resulting store.
RECURSIVE ds_from(_, _, _, _, _)
ds_from(d, u, bal, remaining, i) ==
    IF i > Len(DebitOrder) THEN d
    ELSE LET deduct == ds_deduct(bal[DebitOrder[i]], remaining, i = 1)
         IN  ds_from(remove_sunflowers(d, u, deduct, DebitOrder[i]), u, bal,
                     remaining - deduct, i + 1)

deduct_sunflowers_smart(d, u, amount) ==
    LET balance == get_sunflower_balance(d, u)
    IN  IF balance.total < amount
        THEN [ok |-> FALSE, store |-> d]
        ELSE [ok |-> TRUE, store |-> ds_from(d, u, balance, amount, 1)]

\* reset_streak_sunflowers(u) run without interruption on store d.
reset_streak_sunflowers(d, u) ==
    LET balance == get_sunflower_balance(d, u)
    IN  IF balance.streak > 0
        THEN remove_sunflowers(d, u, balance.streak, "streak")
        ELSE d

(* ------------------- the two calls, run alone -------------------------- *)
\* create_match_atomic(a, b) run without interruption on store d, its
\* datetime.now() reading t.
create_match_atomic(d, a, b, t) ==
    LET d1 == cm_delete_waiting(d, a, b)
        d2 == cm_insert_chat(d1, a, b)
        d3 == cm_update_user(d2, a, b)
        d4 == cm_update_user(d3, b, a)
        d5 == cm_insert_history(d4, a, b, t)
    IN  cm_insert_history(d5, b, a, t)

\* end_chat_atomic(a, b) run without interruption on store d.
end_chat_atomic(d, a, b) ==
    LET cid == ec_select_chat(d, a, b)
        d1  == IF cid # NULL THEN ec_delete_chat(ec_end_game(d, cid), cid) ELSE d
    IN  ec_insert_pending(ec_clear_partners(d1, a, b), a, b)

(* ------------------------------ matcher -------------------------------- *)
\* Mutual gender compatibility of requester u (preference pref) and entry w.
Compatible(u, pref, w) ==
    /\ w.gender_preference \in {"any", gender(u)}
    /\ pref \in {"any", w.gender}

\* w is preferred to v: premium first, then the earlier join time.
Better(w, v) ==
    \/ w.is_premium /\ ~v.is_premium
    \/ w.is_premium = v.is_premium /\ w.joined_at < v.joined_at

\* The users find_best_match may return: the best eligible candidates (a tie
\* is left to the order of the rows); empty when there is none.  The
\* candidate's own preference is read from its pool entry.
find_best_match(d, u, pref, t) ==
    LET eligible == {w \in d.waiting_users :
                        /\ candidate_row(w) \in get_waiting_candidates(d, u, t)
                        /\ Compatible(u, pref, w)}
    IN  {w.user_id : w \in {x \in eligible : \A y \in eligible : ~Better(y, x)}}

(* ------------------------------- tasks --------------------------------- *)
IdleTask ==
    [handler |-> "-", pc |-> "idle", user_id |-> NULL, partner_id |-> NULL,
     gender_pref |-> "any", chat_id |-> NULL, stamp |-> 0,
     amount |-> 0, remaining |-> 0, balance |-> NoBalance, rating |-> 0,
     skipped |-> NULL]

CmPcs == {"cm_begin", "cm_delete", "cm_insert", "cm_update_a", "cm_update_b",
          "cm_history_a", "cm_history_b", "cm_commit"}

EcPcs == {"ec_begin", "ec_select", "ec_end_game", "ec_delete_chat",
          "ec_clear", "ec_pending", "ec_commit"}

\* A store without a write lock: every writer proceeds at once.
WriteLockIgnored == TRUE

\* The write lock of SQLite is free: no transaction is between BEGIN IMMEDIATE
\* and its COMMIT or ROLLBACK.
WriteFree == lock = NULL

At(t, pc) == task[t].pc = pc

Goto(t, pc) == task' = [task EXCEPT ![t].pc = pc]

Finish(t) == task' = [task EXCEPT ![t] = IdleTask]

FreeSlot == MinOf({t \in Tasks : task[t].pc = "idle"})

Start(h, pc, u, pref, p) ==
    /\ ops < MaxOps
    /\ \E t \in Tasks : task[t].pc = "idle"
    /\ task' = [task EXCEPT ![FreeSlot] =
                   [IdleTask EXCEPT !.handler = h, !.pc = pc, !.user_id = u,
                                    !.gender_pref = pref, !.partner_id = p]]
    /\ ops' = ops + 1
    /\ UNCHANGED <<db, lock, txn, now, prompts>>

\* A statement of the open transaction of task t: it acts on the image only.
TxStatement(t, image, pc) ==
    /\ lock = t
    /\ txn' = <<image>>
    /\ Goto(t, pc)
    /\ UNCHANGED <<db, lock, now, ops, prompts>>

\* BEGIN IMMEDIATE: waits for the write lock, then works on a private image.
TxBegin(t, pc) ==
    /\ WriteFree
    /\ lock' = t
    /\ txn' = <<db>>
    /\ Goto(t, pc)
    /\ UNCHANGED <<db, now, ops, prompts>>

\* conn.commit(): the image becomes the store.
Commit(image) == image

\* A rollback that leaves the statements executed so far in the store.
RollbackKeepsImage(d, image) == image

\* conn.rollback(): the image is dropped, the store stays as it was.
Rollback(d, image) == d

(* ----------------------------- Init ------------------------------------ *)
\* A timestamp column that is NULL.
NEVER == 0 - 1

EmptyStore ==
    [current_state   |-> [u \in Users |-> IDLE],
     partner_id      |-> [u \in Users |-> NULL],
     waiting_users   |-> {},
     active_chats    |-> {},
     chat_seq        |-> 0,
     match_history   |-> {},
     pending_ratings |-> EmptyBag,
     active_games    |-> {},
     sunflower_ledger |-> EmptyBag,
     premium_until          |-> [u \in Users |-> NEVER],
     temp_premium_last_used |-> [u \in Users |-> NEVER]]

Init ==
    /\ db = EmptyStore
    /\ lock = NULL
    /\ txn = <<>>
    /\ task = [t \in Tasks |-> IdleTask]
    /\ now = 0
    /\ ops = 0
    /\ prompts = {}

(* ------------------------ /find and the search ------------------------- *)
\* /find arrives (cmd_start of an existing user behaves the same).
cmd_find(u) ==
    /\ user_exists(db, u)
    /\ Start("find", "find_state", u, "any", NULL)

\* cmd_find after user_exists: the state check, then the premium branch.
find_state(t) ==
    /\ At(t, "find_state")
    /\ LET state == get_user_state(db, task[t].user_id)
       IN  IF state \in {CHATTING, SEARCHING} \/ is_premium(task[t].user_id)
           THEN Finish(t)
           ELSE Goto(t, "sm_transition")
    /\ UNCHANGED <<db, lock, txn, now, ops, prompts>>

\* The preference keyboard of a premium user is answered.
select_preference(u, pref) ==
    /\ is_premium(u)
    /\ Start("find", "sm_transition", u, pref, NULL)

\* A start_matchmaking that does not read the result of the transition.
sm_transition_ignores_result(t) ==
    /\ At(t, "sm_transition")
    /\ WriteFree
    /\ db' = transition_state(db, task[t].user_id, IDLE, SEARCHING)
    /\ Goto(t, "sm_join")
    /\ UNCHANGED <<lock, txn, now, ops, prompts>>

\* start_matchmaking: transition_state(user_id, IDLE, SEARCHING).
sm_transition(t) ==
    /\ At(t, "sm_transition")
    /\ WriteFree
    /\ db' = transition_state(db, task[t].user_id, IDLE, SEARCHING)
    /\ IF TransitionApplies(db, task[t].user_id, IDLE)
       THEN Goto(t, "sm_join")
       ELSE Finish(t)
    /\ UNCHANGED <<lock, txn, now, ops, prompts>>

\* start_matchmaking: join_waiting_pool.
sm_join(t) ==
    /\ At(t, "sm_join")
    /\ WriteFree
    /\ db' = join_waiting_pool(db, task[t].user_id, task[t].gender_pref, now)
    /\ Goto(t, "sm_scan")
    /\ UNCHANGED <<lock, txn, now, ops, prompts>>

\* start_matchmaking: find_best_match; no partner ends the handler.
sm_scan(t) ==
    /\ At(t, "sm_scan")
    /\ LET found == find_best_match(db, task[t].user_id, task[t].gender_pref, now)
       IN  IF found = {}
           THEN Finish(t)
           ELSE \E p \in found :
                   task' = [task EXCEPT ![t].pc = "cm_begin", ![t].partner_id = p]
    /\ UNCHANGED <<db, lock, txn, now, ops, prompts>>

(* ----------------------- create_match_atomic --------------------------- *)
cm_begin(t) == At(t, "cm_begin") /\ TxBegin(t, "cm_delete")

cm_delete(t) ==
    /\ At(t, "cm_delete")
    /\ TxStatement(t, cm_delete_waiting(txn[1], task[t].user_id, task[t].partner_id),
                   "cm_insert")

cm_insert(t) ==
    /\ At(t, "cm_insert")
    /\ lock = t
    /\ txn' = <<cm_insert_chat(txn[1], task[t].user_id, task[t].partner_id)>>
    /\ task' = [task EXCEPT ![t].pc = "cm_update_a",
                            ![t].chat_id = txn[1].chat_seq + 1]
    /\ UNCHANGED <<db, lock, now, ops, prompts>>

cm_update_a(t) ==
    /\ At(t, "cm_update_a")
    /\ TxStatement(t, cm_update_user(txn[1], task[t].user_id, task[t].partner_id),
                   "cm_update_b")

cm_update_b(t) ==
    /\ At(t, "cm_update_b")
    /\ TxStatement(t, cm_update_user(txn[1], task[t].partner_id, task[t].user_id),
                   "cm_history_a")

\* now = datetime.now() is read once, before the first history row.
cm_history_a(t) ==
    /\ At(t, "cm_history_a")
    /\ lock = t
    /\ txn' = <<cm_insert_history(txn[1], task[t].user_id, task[t].partner_id, now)>>
    /\ task' = [task EXCEPT ![t].pc = "cm_history_b", ![t].stamp = now]
    /\ UNCHANGED <<db, lock, now, ops, prompts>>

cm_history_b(t) ==
    /\ At(t, "cm_history_b")
    /\ lock = t
    /\ txn' = <<cm_insert_history(txn[1], task[t].partner_id, task[t].user_id,
                                  task[t].stamp)>>
    /\ task' = [task EXCEPT ![t].pc = "cm_commit", ![t].stamp = 0]
    /\ UNCHANGED <<db, lock, now, ops, prompts>>

\* A commit that stores the image and keeps the write lock.
cm_commit_keeps_lock(t) ==
    /\ At(t, "cm_commit")
    /\ lock = t
    /\ db' = Commit(txn[1])
    /\ Goto(t, "sm_result")
    /\ UNCHANGED <<lock, txn, now, ops, prompts>>

\* conn.commit(); return chat_id.
cm_commit(t) ==
    /\ At(t, "cm_commit")
    /\ lock = t
    /\ db' = Commit(txn[1])
    /\ lock' = NULL
    /\ txn' = <<>>
    /\ Goto(t, "sm_result")
    /\ UNCHANGED <<now, ops, prompts>>

\* except Exception: conn.rollback(); return 0.  Any statement may raise
\* (the lock wait of BEGIN IMMEDIATE times out, the disk fails).
cm_rollback(t) ==
    /\ task[t].pc \in CmPcs
    /\ db' = IF lock = t THEN Rollback(db, txn[1]) ELSE db
    /\ lock' = IF lock = t THEN NULL ELSE lock
    /\ txn' = IF lock = t THEN <<>> ELSE txn
    /\ task' = [task EXCEPT ![t].pc = "sm_result", ![t].chat_id = 0, ![t].stamp = 0]
    /\ UNCHANGED <<now, ops, prompts>>

\* start_matchmaking after create_match: notify_match or "Searching".
sm_result(t) ==
    /\ At(t, "sm_result")
    /\ Finish(t)
    /\ UNCHANGED <<db, lock, txn, now, ops, prompts>>

(* ------------------------- end_chat_atomic ----------------------------- *)
ec_begin(t) == At(t, "ec_begin") /\ TxBegin(t, "ec_select")

\* The SELECT of the pair's chat; "if chat_row:" guards the two statements
\* that use chat_id, and nothing else.
ec_select(t) ==
    /\ At(t, "ec_select")
    /\ lock = t
    /\ LET cid == ec_select_chat(txn[1], task[t].user_id, task[t].partner_id)
       IN  task' = [task EXCEPT ![t].chat_id = cid,
                                ![t].pc = IF cid # NULL THEN "ec_end_game"
                                                        ELSE "ec_clear"]
    /\ UNCHANGED <<db, lock, txn, now, ops, prompts>>

ec_end_game_step(t) ==
    /\ At(t, "ec_end_game")
    /\ TxStatement(t, ec_end_game(txn[1], task[t].chat_id), "ec_delete_chat")

ec_delete_chat_step(t) ==
    /\ At(t, "ec_delete_chat")
    /\ TxStatement(t, ec_delete_chat(txn[1], task[t].chat_id), "ec_clear")

ec_clear(t) ==
    /\ At(t, "ec_clear")
    /\ TxStatement(t, ec_clear_partners(txn[1], task[t].user_id, task[t].partner_id),
                   "ec_pending")

ec_pending(t) ==
    /\ At(t, "ec_pending")
    /\ TxStatement(t, ec_insert_pending(txn[1], task[t].user_id, task[t].partner_id),
                   "ec_commit")

ec_commit(t) ==
    /\ At(t, "ec_commit")
    /\ lock = t
    /\ db' = Commit(txn[1])
    /\ lock' = NULL
    /\ txn' = <<>>
    /\ task' = [task EXCEPT ![t].pc = "td_self", ![t].chat_id = NULL]
    /\ UNCHANGED <<now, ops, prompts>>

\* except Exception: conn.rollback(); the error is printed, not raised.
ec_rollback(t) ==
    /\ task[t].pc \in EcPcs
    /\ db' = IF lock = t THEN Rollback(db, txn[1]) ELSE db
    /\ lock' = IF lock = t THEN NULL ELSE lock
    /\ txn' = IF lock = t THEN <<>> ELSE txn
    /\ task' = [task EXCEPT ![t].pc = "td_self", ![t].chat_id = NULL]
    /\ UNCHANGED <<now, ops, prompts>>

(* --------------------------- /next and /stop --------------------------- *)
cmd_next(u) ==
    /\ user_exists(db, u)
    /\ Start("next", "next_partner", u, "any", NULL)

\* cmd_next: get_partner; without a partner the handler answers and returns.
next_partner(t) ==
    /\ At(t, "next_partner")
    /\ LET p == get_partner(db, task[t].user_id)
       IN  IF p = NULL
           THEN Finish(t)
           ELSE task' = [task EXCEPT ![t].pc = "ec_begin", ![t].partner_id = p]
    /\ UNCHANGED <<db, lock, txn, now, ops, prompts>>

cmd_stop(u) ==
    /\ user_exists(db, u)
    /\ Start("stop", "stop_state", u, "any", NULL)

\* cmd_stop: get_user_state selects the branch.
stop_state(t) ==
    /\ At(t, "stop_state")
    /\ LET state == get_user_state(db, task[t].user_id)
       IN  IF state = CHATTING THEN Goto(t, "stop_partner")
           ELSE IF state = SEARCHING THEN Goto(t, "stop_leave")
           ELSE Finish(t)
    /\ UNCHANGED <<db, lock, txn, now, ops, prompts>>

\* cmd_stop, CHATTING branch: get_partner (its result is not checked).
stop_partner(t) ==
    /\ At(t, "stop_partner")
    /\ task' = [task EXCEPT ![t].pc = "ec_begin",
                            ![t].partner_id = get_partner(db, task[t].user_id)]
    /\ UNCHANGED <<db, lock, txn, now, ops, prompts>>

\* cmd_stop, SEARCHING branch: leave_waiting_pool.
stop_leave(t) ==
    /\ At(t, "stop_leave")
    /\ WriteFree
    /\ db' = leave_waiting_pool(db, task[t].user_id)
    /\ Goto(t, "stop_idle")
    /\ UNCHANGED <<lock, txn, now, ops, prompts>>

\* cmd_stop, SEARCHING branch: transition_state(user_id, SEARCHING, IDLE).
stop_idle(t) ==
    /\ At(t, "stop_idle")
    /\ WriteFree
    /\ db' = transition_state(db, task[t].user_id, SEARCHING, IDLE)
    /\ Finish(t)
    /\ UNCHANGED <<lock, txn, now, ops, prompts>>

\* After end_chat_atomic: transition_state(user_id, CHATTING, RATING).
td_self(t) ==
    /\ At(t, "td_self")
    /\ WriteFree
    /\ db' = transition_state(db, task[t].user_id, CHATTING, RATING)
    /\ Goto(t, "td_partner")
    /\ UNCHANGED <<lock, txn, now, ops, prompts>>

\* transition_state(partner_id, CHATTING, RATING), then the messages to the
\* partner and the two rating prompts.  Sending to the partner raises when
\* the partner is unreachable (or None) and the handler ends there.
td_partner(t) ==
    /\ At(t, "td_partner")
    /\ WriteFree
    /\ db' = transition_state(db, task[t].partner_id, CHATTING, RATING)
    /\ \/ /\ task[t].partner_id # NULL
          /\ prompts' = prompts \cup {<<task[t].user_id, task[t].partner_id>>,
                                      <<task[t].partner_id, task[t].user_id>>}
          /\ Goto(t, "td_idle")
       \/ /\ prompts' = prompts
          /\ Finish(t)
    /\ UNCHANGED <<lock, txn, now, ops>>

\* transition_state(user_id, RATING, IDLE); /next then searches again, its
\* own partner_id (the partner skipped) staying in scope beside the
\* partner_id of start_matchmaking.
td_idle(t) ==
    /\ At(t, "td_idle")
    /\ WriteFree
    /\ db' = transition_state(db, task[t].user_id, RATING, IDLE)
    /\ IF task[t].handler = "next"
       THEN task' = [task EXCEPT ![t].pc = "sm_transition", ![t].partner_id = NULL,
                                 ![t].skipped = task[t].partner_id]
       ELSE Finish(t)
    /\ UNCHANGED <<lock, txn, now, ops, prompts>>

(* ------------------------------ ratings -------------------------------- *)
\* add_rating: the rating is stored and the rater's obligation is discharged.
add_rating(d, rater, rated) ==
    [d EXCEPT !.pending_ratings =
        [r \in (DOMAIN @) \ {<<rater, rated>>} |-> @[r]]]

get_pending_ratings(d, rater) == {r \in DOMAIN d.pending_ratings : r[1] = rater}

\* The stars of a rating button: one below and one at the reward threshold.
Ratings == {3, 4}

\* The sunflowers handle_rating awards for a rating of at least 4.
RATER_REWARD == 10
RATED_REWARD == 20

\* A rating button of a prompt shown earlier is pressed.
handle_rating(u, rated, rating) ==
    /\ <<u, rated>> \in prompts
    /\ ops < MaxOps
    /\ \E t \in Tasks : task[t].pc = "idle"
    /\ task' = [task EXCEPT ![FreeSlot] =
                   [IdleTask EXCEPT !.handler = "rate", !.pc = "rate_add",
                                    !.user_id = u, !.partner_id = rated,
                                    !.rating = rating]]
    /\ ops' = ops + 1
    /\ UNCHANGED <<db, lock, txn, now, prompts>>

\* add_rating; "if rating >= 4" selects the award.
rate_add(t) ==
    /\ At(t, "rate_add")
    /\ WriteFree
    /\ db' = add_rating(db, task[t].user_id, task[t].partner_id)
    /\ IF task[t].rating >= 4
       THEN Goto(t, "rate_award_rater")
       ELSE Goto(t, "rate_pending")
    /\ UNCHANGED <<lock, txn, now, ops, prompts>>

\* add_sunflowers(user_id, 10, 'rating')
rate_award_rater(t) ==
    /\ At(t, "rate_award_rater")
    /\ WriteFree
    /\ db' = add_sunflowers(db, task[t].user_id, RATER_REWARD, "rating")
    /\ Goto(t, "rate_award_rated")
    /\ UNCHANGED <<lock, txn, now, ops, prompts>>

\* add_sunflowers(rated_user_id, 20, 'rating')
rate_award_rated(t) ==
    /\ At(t, "rate_award_rated")
    /\ WriteFree
    /\ db' = add_sunflowers(db, task[t].partner_id, RATED_REWARD, "rating")
    /\ Goto(t, "rate_pending")
    /\ UNCHANGED <<lock, txn, now, ops, prompts>>

\* "if not pending": only then the rater goes back to IDLE.
rate_pending(t) ==
    /\ At(t, "rate_pending")
    /\ IF get_pending_ratings(db, task[t].user_id) = {}
       THEN Goto(t, "rate_idle")
       ELSE Finish(t)
    /\ UNCHANGED <<db, lock, txn, now, ops, prompts>>

\* A handle_rating that sets the rater's state without a condition.
rate_idle_forces_state(t) ==
    /\ At(t, "rate_idle")
    /\ WriteFree
    /\ db' = transition_unchecked(db, task[t].user_id, RATING, IDLE)
    /\ Finish(t)
    /\ UNCHANGED <<lock, txn, now, ops, prompts>>

\* handle_rating: transition_state(user_id, RATING, IDLE).
rate_idle(t) ==
    /\ At(t, "rate_idle")
    /\ WriteFree
    /\ db' = transition_state(db, task[t].user_id, RATING, IDLE)
    /\ Finish(t)
    /\ UNCHANGED <<lock, txn, now, ops, prompts>>

(* ------------------------------- games --------------------------------- *)
\* create_game for the chat c of its two players.
create_game(c) ==
    /\ WriteFree
    /\ c \in db.active_chats
    /\ Cardinality(db.active_games) < MaxGames
    /\ db' = [db EXCEPT !.active_games =
                 @ \cup {[game_id |-> Cardinality(@) + 1, chat_id |-> c.chat_id,
                          player1_id |-> c.user_a, player2_id |-> c.user_b,
                          winner_id |-> NULL, ended |-> FALSE]}]
    /\ UNCHANGED <<lock, txn, task, now, ops, prompts>>

\* SELECT ... FROM active_games WHERE chat_id = ? AND winner_id IS NULL;
\* fetchone: the first such row as <<row>>, or <<>> for None.
get_active_game(d, cid) ==
    LET rows == {g \in d.active_games : g.chat_id = cid /\ g.winner_id = NULL}
    IN  IF rows = {} THEN <<>>
        ELSE <<CHOOSE g \in rows : \A h \in rows : g.game_id <= h.game_id>>

\* end_game(game_id, winner_id) of a game still running.
end_game(g, winner) ==
    /\ WriteFree
    /\ g \in db.active_games
    /\ ~g.ended
    /\ db' = [db EXCEPT !.active_games =
                 (@ \ {g}) \cup {[g EXCEPT !.winner_id = winner, !.ended = TRUE]}]
    /\ UNCHANGED <<lock, txn, task, now, ops, prompts>>

(* ------------------------------- clock --------------------------------- *)
Tick ==
    /\ now < MaxTime
    /\ now' = now + 1
    /\ UNCHANGED <<db, lock, txn, task, ops, prompts>>

(* --------------------------- specification ----------------------------- *)
Step(t) ==
    \/ find_state(t)
    \/ sm_transition(t)
    \/ sm_join(t)
    \/ sm_scan(t)
    \/ cm_begin(t)
    \/ cm_delete(t)
    \/ cm_insert(t)
    \/ cm_update_a(t)
    \/ cm_update_b(t)
    \/ cm_history_a(t)
    \/ cm_history_b(t)
    \/ cm_commit(t)
    \/ cm_rollback(t)
    \/ sm_result(t)
    \/ next_partner(t)
    \/ stop_state(t)
    \/ stop_partner(t)
    \/ stop_leave(t)
    \/ stop_idle(t)
    \/ ec_begin(t)
    \/ ec_select(t)
    \/ ec_end_game_step(t)
    \/ ec_delete_chat_step(t)
    \/ ec_clear(t)
    \/ ec_pending(t)
    \/ ec_commit(t)
    \/ ec_rollback(t)
    \/ td_self(t)
    \/ td_partner(t)
    \/ td_idle(t)
    \/ rate_add(t)
    \/ rate_award_rater(t)
    \/ rate_award_rated(t)
    \/ rate_pending(t)
    \/ rate_idle(t)

Handlers ==
    \/ \E u \in Users : cmd_find(u)
    \/ \E u \in Users, pref \in GenderPrefs : select_preference(u, pref)
    \/ \E u \in Users : cmd_next(u)
    \/ \E u \in Users : cmd_stop(u)
    \/ \E u \in Users, r \in Users, stars \in Ratings : handle_rating(u, r, stars)
    \/ \E t \in Tasks : Step(t)

\* The handlers under a running clock.
Next == Handlers \/ Tick

Spec == Init /\ [][Next]_vars

\* The handlers together with the games played inside the chats.
Games ==
    \/ \E c \in db.active_chats : create_game(c)
    \/ \E g \in db.active_games :
          \E w \in {g.player1_id, g.player2_id, NULL} : end_game(g, w)

NextGames == Handlers \/ Games

SpecGames == Init /\ [][NextGames]_vars

(* ------------------------- ledger operations --------------------------- *)
\* The users whose ledgers are operated on.
LedgerUsers == {1, 2}

\* The amounts of a credit, among them amounts that are not positive.
CreditAmounts == (0 - 1) .. MaxAmount

\* The amounts of a smart debit: they may span more than one source.
DebitAmounts == 1 .. (MaxAmount + 1)

\* A ledger call for user u with the given amount is started.
LedgerStart(h, pc, u, amount) ==
    /\ ops < MaxOps
    /\ \E t \in Tasks : task[t].pc = "idle"
    /\ task' = [task EXCEPT ![FreeSlot] =
                   [IdleTask EXCEPT !.handler = h, !.pc = pc, !.user_id = u,
                                    !.amount = amount]]
    /\ ops' = ops + 1
    /\ UNCHANGED <<db, lock, txn, now, prompts>>

\* add_sunflowers(u, amount, source): one INSERT and its commit.
credit(u, amount, source) ==
    /\ ops < MaxOps
    /\ WriteFree
    /\ db' = add_sunflowers(db, u, amount, source)
    /\ ops' = ops + 1
    /\ UNCHANGED <<lock, txn, task, now, prompts>>

\* deduct_sunflowers_smart(u, amount) is called.
smart_debit(u, amount) == LedgerStart("debit", "ds_balance", u, amount)

\* "balance = await get_sunflower_balance(user_id)" and the test of the total.
ds_balance(t) ==
    /\ At(t, "ds_balance")
    /\ LET balance == get_sunflower_balance(db, task[t].user_id)
       IN  IF balance.total < task[t].amount
           THEN Finish(t)
           ELSE task' = [task EXCEPT ![t].pc = "ds_game",
                                     ![t].balance = balance,
                                     ![t].remaining = task[t].amount]
    /\ UNCHANGED <<db, lock, txn, now, ops, prompts>>

\* The step of deduct_sunflowers_smart for the i-th source of its order: the
\* removal is computed from the balance read at the start of the call.
ds_step(t, i) ==
    /\ At(t, "ds_" \o DebitOrder[i])
    /\ WriteFree
    /\ LET deduct == ds_deduct(task[t].balance[DebitOrder[i]], task[t].remaining,
                               i = 1)
       IN  /\ db' = remove_sunflowers(db, task[t].user_id, deduct, DebitOrder[i])
           /\ IF i < Len(DebitOrder)
              THEN task' = [task EXCEPT ![t].pc = "ds_" \o DebitOrder[i + 1],
                                        ![t].remaining = @ - deduct]
              ELSE Finish(t)
    /\ UNCHANGED <<lock, txn, now, ops, prompts>>

ds_game(t) == ds_step(t, 1)

ds_gift(t) == ds_step(t, 2)

ds_rating(t) == ds_step(t, 3)

ds_streak(t) == ds_step(t, 4)

\* reset_streak_sunflowers(u) is called.
reset_streak(u) == LedgerStart("reset", "rs_balance", u, 0)

\* "balance = await get_sunflower_balance(user_id)"; "if balance['streak'] > 0".
rs_balance(t) ==
    /\ At(t, "rs_balance")
    /\ LET balance == get_sunflower_balance(db, task[t].user_id)
       IN  IF balance.streak > 0
           THEN task' = [task EXCEPT ![t].pc = "rs_remove", ![t].balance = balance]
           ELSE Finish(t)
    /\ UNCHANGED <<db, lock, txn, now, ops, prompts>>

\* "await remove_sunflowers(user_id, balance['streak'], 'streak')"
rs_remove(t) ==
    /\ At(t, "rs_remove")
    /\ WriteFree
    /\ db' = remove_sunflowers(db, task[t].user_id, task[t].balance.streak, "streak")
    /\ Finish(t)
    /\ UNCHANGED <<lock, txn, now, ops, prompts>>

NextLedger ==
    \/ \E u \in LedgerUsers, a \in CreditAmounts, s \in Sources : credit(u, a, s)
    \/ \E u \in LedgerUsers, a \in DebitAmounts : smart_debit(u, a)
    \/ \E u \in LedgerUsers : reset_streak(u)
    \/ \E t \in Tasks : ds_balance(t)
    \/ \E t \in Tasks : ds_game(t)
    \/ \E t \in Tasks : ds_gift(t)
    \/ \E t \in Tasks : ds_rating(t)
    \/ \E t \in Tasks : ds_streak(t)
    \/ \E t \in Tasks : rs_balance(t)
    \/ \E t \in Tasks : rs_remove(t)

\* The ledger operations of concurrently running handlers.
SpecLedger == Init /\ [][NextLedger]_vars

(* ----------------------------- onboarding ----------------------------- *)
\* The users that have no row yet.
NewUsers == {3}

\* The store in which the users of NewUsers have not pressed a gender button.
InitOnboard ==
    /\ db = [EmptyStore EXCEPT
                !.current_state = [u \in Users \ NewUsers |-> IDLE],
                !.partner_id    = [u \in Users \ NewUsers |-> NULL]]
    /\ lock = NULL
    /\ txn = <<>>
    /\ task = [t \in Tasks |-> IdleTask]
    /\ now = 0
    /\ ops = 0
    /\ prompts = {}

\* A gender button of the welcome message is pressed; the message and its
\* buttons stay in the chat, so this may happen again at any later time.
select_gender(u) == Start("gender", "sg_create", u, "any", NULL)

\* select_gender: create_user; an INSERT that raises ends the handler.
sg_create(t) ==
    /\ At(t, "sg_create")
    /\ WriteFree
    /\ db' = create_user(db, task[t].user_id)
    /\ IF user_exists(db, task[t].user_id)
       THEN Finish(t)
       ELSE Goto(t, "sg_agree")
    /\ UNCHANGED <<lock, txn, now, ops, prompts>>

\* select_gender: transition_state(user_id, NEW, AGREED), result not read.
sg_agree(t) ==
    /\ At(t, "sg_agree")
    /\ WriteFree
    /\ db' = transition_state(db, task[t].user_id, NEW_, AGREED)
    /\ Goto(t, "sg_idle")
    /\ UNCHANGED <<lock, txn, now, ops, prompts>>

\* select_gender: transition_state(user_id, AGREED, IDLE), result not read.
sg_idle(t) ==
    /\ At(t, "sg_idle")
    /\ WriteFree
    /\ db' = transition_state(db, task[t].user_id, AGREED, IDLE)
    /\ Finish(t)
    /\ UNCHANGED <<lock, txn, now, ops, prompts>>

Onboarding ==
    \/ \E u \in Users : select_gender(u)
    \/ \E t \in Tasks : sg_create(t)
    \/ \E t \in Tasks : sg_agree(t)
    \/ \E t \in Tasks : sg_idle(t)

NextOnboard == Handlers \/ Onboarding

\* The handlers together with the onboarding of a new user.
SpecOnboard == InitOnboard /\ [][NextOnboard]_vars

(* --------------------------- temp premium ------------------------------ *)
\* The clock of the premium operations counts half days.
TicksPerDay == 2

\* "3 days for 1000 sunflowers", "Once every 15 days".
TEMP_PREMIUM_DAYS == 3
TEMP_PREMIUM_COST == 1000
TEMP_PREMIUM_COOLDOWN_DAYS == 15

\* (datetime.now() - last_used).days: the whole days of the difference.
days_since(last_used, t) == (t - last_used) \div TicksPerDay

\* can_use_temp_premium: no row or no last use, or the cooldown is over.
can_use_temp_premium(d, u, t) ==
    IF ~user_exists(d, u) \/ d.temp_premium_last_used[u] = NEVER THEN TRUE
    ELSE days_since(d.temp_premium_last_used[u], t) >= TEMP_PREMIUM_COOLDOWN_DAYS

\* use_temp_premium, first statement: UPDATE users SET temp_premium_last_used = now.
use_temp_premium_mark(d, u, t) ==
    IF user_exists(d, u) THEN [d EXCEPT !.temp_premium_last_used[u] = t] ELSE d

\* update_premium: UPDATE users SET premium_until = now + days.
update_premium(d, u, days, t) ==
    IF user_exists(d, u) THEN [d EXCEPT !.premium_until[u] = t + days * TicksPerDay]
    ELSE d

\* can_buy_temp_premium: the cooldown is over and the balance covers the cost.
can_buy_temp_premium(d, u, t) ==
    /\ can_use_temp_premium(d, u, t)
    /\ get_sunflower_balance(d, u).total >= TEMP_PREMIUM_COST

\* buy_temp_premium, the payment: deduct_sunflowers_smart of the cost.
buy_temp_premium_pay(d, u) == deduct_sunflowers_smart(d, u, TEMP_PREMIUM_COST)

\* Sunflowers are won in games: add_sunflowers of the cost of one grant.
earn(u) ==
    /\ ops < MaxOps
    /\ WriteFree
    /\ db' = add_sunflowers(db, u, TEMP_PREMIUM_COST, "game")
    /\ ops' = ops + 1
    /\ UNCHANGED <<lock, txn, task, now, prompts>>

\* The button "buy_temp_premium" is pressed.
buy_temp_premium_callback(u) ==
    /\ user_exists(db, u)
    /\ Start("buy_temp", "bt_can_buy", u, "any", NULL)

\* "can_buy, reason = await can_buy_temp_premium(user_id)"; "if not can_buy".
bt_can_buy(t) ==
    /\ At(t, "bt_can_buy")
    /\ IF can_buy_temp_premium(db, task[t].user_id, now)
       THEN Goto(t, "bt_pay")
       ELSE Finish(t)
    /\ UNCHANGED <<db, lock, txn, now, ops, prompts>>

\* buy_temp_premium: the sunflowers are deducted; without them the purchase
\* fails and nothing is activated.
bt_pay(t) ==
    /\ At(t, "bt_pay")
    /\ WriteFree
    /\ LET paid == buy_temp_premium_pay(db, task[t].user_id)
       IN  /\ db' = paid.store
           /\ IF paid.ok THEN Goto(t, "bt_use") ELSE Finish(t)
    /\ UNCHANGED <<lock, txn, now, ops, prompts>>

\* buy_temp_premium: use_temp_premium, the UPDATE of temp_premium_last_used.
bt_use(t) ==
    /\ At(t, "bt_use")
    /\ WriteFree
    /\ db' = use_temp_premium_mark(db, task[t].user_id, now)
    /\ Goto(t, "bt_premium")
    /\ UNCHANGED <<lock, txn, now, ops, prompts>>

\* use_temp_premium: update_premium(user_id, TEMP_PREMIUM_DAYS).
bt_premium(t) ==
    /\ At(t, "bt_premium")
    /\ WriteFree
    /\ db' = update_premium(db, task[t].user_id, TEMP_PREMIUM_DAYS, now)
    /\ Finish(t)
    /\ UNCHANGED <<lock, txn, now, ops, prompts>>

\* Half a day passes.
TickHalfDay ==
    /\ now < MaxHalfDays
    /\ now' = now + 1
    /\ UNCHANGED <<db, lock, txn, task, ops, prompts>>

NextPremium ==
    \/ \E u \in LedgerUsers : earn(u)
    \/ \E u \in LedgerUsers : buy_temp_premium_callback(u)
    \/ \E t \in Tasks : bt_can_buy(t)
    \/ \E t \in Tasks : bt_pay(t)
    \/ \E t \in Tasks : bt_use(t)
    \/ \E t \in Tasks : bt_premium(t)
    \/ TickHalfDay

\* The purchases of temp premium by concurrently running callbacks.
SpecPremium == Init /\ [][NextPremium]_vars

(* ------------------------- fair scheduling ----------------------------- *)
\* A statement of create_match_atomic or end_chat_atomic of task t that
\* completes without raising.
Proceeds(t) ==
    \/ cm_begin(t)
    \/ cm_delete(t)
    \/ cm_insert(t)
    \/ cm_update_a(t)
    \/ cm_update_b(t)
    \/ cm_history_a(t)
    \/ cm_history_b(t)
    \/ cm_commit(t)
    \/ ec_begin(t)
    \/ ec_select(t)
    \/ ec_end_game_step(t)
    \/ ec_delete_chat_step(t)
    \/ ec_clear(t)
    \/ ec_pending(t)
    \/ ec_commit(t)

\* The event loop resumes every coroutine whose awaited statement can
\* complete; that a statement raises is never required to happen.
Fairness == \A t \in Tasks : WF_vars(Proceeds(t))

\* The handlers under a fair event loop.
SpecLive == Init /\ [][Handlers]_vars /\ Fairness

\* The event loop resumes every running handler, and every user answers the
\* rating prompts shown to them; which way a step goes (a send that raises,
\* a statement that raises) is not prescribed.
FairnessRating ==
    /\ \A t \in Tasks : WF_vars(Step(t))
    /\ \A u \in Users, r \in Users :
          WF_vars(\E stars \in Ratings : handle_rating(u, r, stars))

\* The handlers under a fair event loop, with users that answer their prompts.
SpecRating == Init /\ [][Handlers]_vars /\ FairnessRating

(* ======================= properties of the core ======================== *)
\* Task t takes a step / returns from create_match_atomic / from end_chat_atomic.
Moves(t) == task'[t] # task[t]

PairingReturns(t) == task[t].pc \in CmPcs /\ task'[t].pc = "sm_result"

PairingCommits(t) == PairingReturns(t) /\ task'[t].chat_id # 0

TeardownCommits(t) == At(t, "ec_commit") /\ task'[t].pc = "td_self" /\ lock' = NULL
                      /\ txn # <<>> /\ db' = txn[1]

Searching(d, u) ==
    /\ d.current_state[u] = SEARCHING
    /\ InPool(d, u)
    /\ d.partner_id[u] = NULL
    /\ ~InChat(d, u)

\* a and b are a pair: mutual partner references and an open session.
Paired(d, a, b) ==
    /\ d.partner_id[a] = b
    /\ d.partner_id[b] = a
    /\ ChatsOfPair(d, a, b) # {}

\* C1: pairing race.  Two scans selected the same user c; the first pairing
\* committed (its task w has just returned with a chat id, w's user and c are
\* a pair).  The second pairing, of a user still searching, must then report
\* failure and leave that user enqueued, SEARCHING, without partner or
\* session, and leave the winner's pair alone.
C1_RaceLost(t, w) ==
    /\ t # w
    /\ task[t].pc \in CmPcs
    /\ task[w].pc = "sm_result"
    /\ task[w].chat_id # 0
    /\ task[w].partner_id = task[t].partner_id
    /\ task[w].user_id # task[t].user_id
    /\ Searching(db, task[t].user_id)
    /\ db.current_state[task[t].partner_id] = CHATTING
    /\ Paired(db, task[w].user_id, task[t].partner_id)

C1_PairingRace ==
    [][\A t \in Tasks, w \in Tasks :
         C1_RaceLost(t, w) /\ PairingReturns(t) =>
            /\ task'[t].chat_id = 0
            /\ Searching(db', task[t].user_id)
            /\ Paired(db', task[w].user_id, task[t].partner_id)
            /\ Cardinality(db'.active_chats) = Cardinality(db.active_chats)]_vars

\* C2: a user has a partner reference exactly when an open session row
\* contains the user.
C2_PartnerIffSession ==
    \A u \in Users : (db.partner_id[u] # NULL) <=> InChat(db, u)

\* C3: no user is at once in the waiting pool and in an open session.
C3_PoolSessionDisjoint ==
    \A u \in Users : ~(InPool(db, u) /\ InChat(db, u))

\* C4: a pairing whose participants are not both IDLE or SEARCHING when it
\* executes changes nothing and returns 0.
C4_PairingNeedsSearchers ==
    [][\A t \in Tasks :
         /\ PairingReturns(t)
         /\ \/ db.current_state[task[t].user_id] \notin {IDLE, SEARCHING}
            \/ db.current_state[task[t].partner_id] \notin {IDLE, SEARCHING}
         => task'[t].chat_id = 0 /\ db' = db]_vars

\* The four effects of a pairing of a with b under chat id cid, from d to e,
\* and nothing else.
PairingApplied(d, e, a, b, cid) ==
    /\ e.waiting_users = {w \in d.waiting_users : w.user_id \notin {a, b}}
    /\ cid = d.chat_seq + 1
    /\ e.chat_seq = cid
    /\ e.active_chats =
          d.active_chats \cup {[chat_id |-> cid, user_a |-> a, user_b |-> b]}
    /\ e.current_state =
          [u \in Users |-> IF u \in {a, b} THEN CHATTING ELSE d.current_state[u]]
    /\ e.partner_id =
          [u \in Users |-> IF u = a THEN b ELSE IF u = b THEN a ELSE d.partner_id[u]]
    /\ \E T \in 0 .. MaxTime :
          e.match_history =
             {h \in d.match_history : {h.user_id, h.partner_id} # {a, b}}
             \cup {[user_id |-> a, partner_id |-> b, last_matched_at |-> T],
                   [user_id |-> b, partner_id |-> a, last_matched_at |-> T]}
    /\ e.pending_ratings = d.pending_ratings
    /\ e.active_games = d.active_games

\* C5: pairing is all-or-nothing.  Every step of a create_match_atomic call
\* leaves the committed store as it was, except the return with a chat id,
\* which publishes the four effects together; a return of 0 changes nothing.
C5_PairingAllOrNothing ==
    [][\A t \in Tasks :
         task[t].pc \in CmPcs /\ Moves(t) =>
            IF PairingCommits(t)
            THEN PairingApplied(db, db', task[t].user_id, task[t].partner_id,
                                task'[t].chat_id)
            ELSE db' = db]_vars

\* One pairing has returned 0 and another has returned its chat id.
C5_Witness ==
    \E t \in Tasks, w \in Tasks :
        /\ task[t].pc = "sm_result" /\ task[t].chat_id = 0
        /\ task[w].pc = "sm_result" /\ task[w].chat_id # 0
        /\ Paired(db, task[w].user_id, task[w].partner_id)
        /\ db.current_state[task[w].user_id] = CHATTING

\* C6: re-match cooldown.  No pairing of a with b commits while a history
\* row of the pair is at most MATCH_HISTORY_WINDOW_SECONDS old.
C6_RematchCooldown ==
    [][\A t \in Tasks :
         PairingCommits(t) =>
            ~\E h \in db.match_history :
                /\ {h.user_id, h.partner_id} = {task[t].user_id, task[t].partner_id}
                /\ now - h.last_matched_at <= MATCH_HISTORY_WINDOW_SECONDS]_vars

\* C7: cancel against pairing, for a searching user c.
\* (i) Once a pairing of c has committed, the steps of c's cancel change
\*     nothing.
\* (ii) Once c's cancel has committed (c is IDLE and out of the pool), a
\*     pairing that had selected c returns 0 and changes nothing, and its
\*     requester is still enqueued.
C7_CancelNoOp(t) ==
    /\ task[t].pc \in {"stop_leave", "stop_idle"}
    /\ Moves(t)
    /\ db.current_state[task[t].user_id] = CHATTING
    /\ \E p \in Users : Paired(db, task[t].user_id, p)

C7_PairingAfterCancel(t) ==
    /\ PairingReturns(t)
    /\ db.current_state[task[t].partner_id] = IDLE
    /\ ~InPool(db, task[t].partner_id)
    /\ Searching(db, task[t].user_id)

C7_CancelPairingRace ==
    [][\A t \in Tasks :
         /\ C7_CancelNoOp(t) => db' = db
         /\ C7_PairingAfterCancel(t) =>
               /\ task'[t].chat_id = 0
               /\ db' = db]_vars

\* The pending-rating rows of rater a for b.
Pending(d, a, b) == CopiesIn(<<a, b>>, d.pending_ratings)

\* C8: teardown is idempotent.  When a teardown of the pair has just
\* returned (its session is gone, both partner references are null, one
\* obligation per direction exists), a second end_chat_atomic of the same
\* pair changes nothing.
C8_SecondTeardown(t, w) ==
    /\ t # w
    /\ TeardownCommits(t)
    /\ task[w].pc = "td_self"
    /\ {task[w].user_id, task[w].partner_id} = {task[t].user_id, task[t].partner_id}
    /\ task[t].partner_id # NULL
    /\ ChatsOfPair(db, task[t].user_id, task[t].partner_id) = {}
    /\ db.partner_id[task[t].user_id] = NULL
    /\ db.partner_id[task[t].partner_id] = NULL
    /\ Pending(db, task[t].user_id, task[t].partner_id) = 1
    /\ Pending(db, task[t].partner_id, task[t].user_id) = 1

C8_TeardownIdempotent ==
    [][\A t \in Tasks, w \in Tasks : C8_SecondTeardown(t, w) => db' = db]_vars

\* C9: a teardown of a pair without an open session between them changes no
\* partner reference, deletes no session and creates no obligation.
C9_TeardownWithoutSession ==
    [][\A t \in Tasks :
         /\ TeardownCommits(t)
         /\ ChatsOfPair(db, task[t].user_id, task[t].partner_id) = {}
         => /\ db'.partner_id = db.partner_id
            /\ db'.active_chats = db.active_chats
            /\ db'.pending_ratings = db.pending_ratings]_vars

\* The effects of a teardown of the open session cid of a and b, from d to e,
\* and nothing else.
TeardownApplied(d, e, a, b, cid) ==
    /\ e.active_games =
          {IF g.chat_id = cid /\ g.winner_id = NULL
           THEN [g EXCEPT !.ended = TRUE] ELSE g : g \in d.active_games}
    /\ \A g \in e.active_games : g.chat_id = cid => g.ended
    /\ e.active_chats = {c \in d.active_chats : c.chat_id # cid}
    /\ e.partner_id =
          [u \in Users |-> IF u \in {a, b} THEN NULL ELSE d.partner_id[u]]
    /\ Pending(e, a, b) = Pending(d, a, b) + 1
    /\ Pending(e, b, a) = Pending(d, b, a) + 1
    /\ \A r \in UserOrNull \X UserOrNull :
          r \notin {<<a, b>>, <<b, a>>} =>
             CopiesIn(r, e.pending_ratings) = CopiesIn(r, d.pending_ratings)
    /\ e.current_state = d.current_state
    /\ e.waiting_users = d.waiting_users
    /\ e.match_history = d.match_history
    /\ e.chat_seq = d.chat_seq

\* C10: teardown is all-or-nothing.  For a pair with an open session, every
\* step of an end_chat_atomic call leaves the committed store as it was,
\* except the commit, which publishes all teardown effects together.
C10_TeardownAllOrNothing ==
    [][\A t \in Tasks :
         /\ task[t].pc \in EcPcs
         /\ Moves(t)
         /\ ChatsOfPair(db, task[t].user_id, task[t].partner_id) # {}
         => IF TeardownCommits(t)
            THEN TeardownApplied(db, db', task[t].user_id, task[t].partner_id,
                     ec_select_chat(db, task[t].user_id, task[t].partner_id))
            ELSE db' = db]_vars

\* A teardown has committed for a session whose running game it ended.
C10_Witness ==
    \E t \in Tasks :
        /\ task[t].pc = "td_self"
        /\ task[t].partner_id # NULL
        /\ ChatsOfPair(db, task[t].user_id, task[t].partner_id) = {}
        /\ db.partner_id[task[t].user_id] = NULL
        /\ db.partner_id[task[t].partner_id] = NULL
        /\ Pending(db, task[t].user_id, task[t].partner_id) = 1
        /\ Pending(db, task[t].partner_id, task[t].user_id) = 1
        /\ \E g \in db.active_games :
              /\ g.ended
              /\ g.winner_id = NULL
              /\ {g.player1_id, g.player2_id} = {task[t].user_id, task[t].partner_id}

\* C11: pairing and teardown serialize.  While a transaction is open no other
\* write reaches the store; the commit of a create_match_atomic call changes
\* the store exactly as that call run alone on the store of that moment, and
\* so does the commit of an end_chat_atomic call: every execution equals the
\* calls run one after another in the order of their commits.
C11_TransactionsSerialize ==
    [][/\ \A t \in Tasks :
            PairingCommits(t) =>
               \E T \in 0 .. MaxTime :
                  db' = create_match_atomic(db, task[t].user_id,
                                            task[t].partner_id, T)
       /\ \A t \in Tasks :
            TeardownCommits(t) =>
               db' = end_chat_atomic(db, task[t].user_id, task[t].partner_id)
       /\ lock # NULL /\ db' # db =>
            \E t \in Tasks : lock = t /\ (PairingCommits(t) \/ TeardownCommits(t))]_vars

\* A teardown has executed statements inside its transaction while a pairing
\* that involves one of its users waits at BEGIN IMMEDIATE.
C11_Witness ==
    \E t \in Tasks, w \in Tasks :
        /\ lock = w
        /\ task[w].pc \in EcPcs
        /\ txn[1] # db
        /\ task[t].pc = "cm_begin"
        /\ {task[t].user_id, task[t].partner_id}
             \cap {task[w].user_id, task[w].partner_id} # {}

\* The transition_state call a task is about to make: <<user, from, to>>.
TransitionPcs == {"sm_transition", "stop_idle", "td_self", "td_partner",
                  "td_idle", "rate_idle"}

TransitionCall(t) ==
    CASE task[t].pc = "sm_transition" -> <<task[t].user_id, IDLE, SEARCHING>>
      [] task[t].pc = "stop_idle"     -> <<task[t].user_id, SEARCHING, IDLE>>
      [] task[t].pc = "td_self"       -> <<task[t].user_id, CHATTING, RATING>>
      [] task[t].pc = "td_partner"    -> <<task[t].partner_id, CHATTING, RATING>>
      [] task[t].pc = "td_idle"       -> <<task[t].user_id, RATING, IDLE>>
      [] task[t].pc = "rate_idle"     -> <<task[t].user_id, RATING, IDLE>>

Calls(t) == task[t].pc \in TransitionPcs /\ Moves(t)

\* C12: transition_state(user, from, to).  When the stored state of the user
\* equals from, the call stores to and returns true (start_matchmaking goes
\* on to join the pool); when it differs or the user does not exist, the
\* stored states stay as they are and the call returns false
\* (start_matchmaking stops).  Nothing but that user's state changes.
C12_TransitionContract ==
    [][\A t \in Tasks :
         Calls(t) =>
            LET u    == TransitionCall(t)[1]
                from == TransitionCall(t)[2]
                to   == TransitionCall(t)[3]
                hit  == u \in Users /\ db.current_state[u] = from
            IN  /\ hit  => db'.current_state = [db.current_state EXCEPT ![u] = to]
                /\ ~hit => db'.current_state = db.current_state
                /\ task[t].pc = "sm_transition" =>
                      (hit <=> task'[t].pc = "sm_join")
                /\ db' = [db EXCEPT !.current_state = db'.current_state]]_vars

\* One call has taken effect (the task goes on to join the pool as SEARCHING)
\* while another task is about to call for a user that does not exist.
C12_Witness ==
    \E t \in Tasks, w \in Tasks :
        /\ task[t].pc = "sm_join"
        /\ db.current_state[task[t].user_id] = SEARCHING
        /\ task[w].pc = "td_partner"
        /\ task[w].partner_id = NULL

\* Tasks t and w are both about to make the same call: same user, same from.
SameCall(t, w) ==
    /\ t # w
    /\ task[t].pc \in TransitionPcs
    /\ task[w].pc \in TransitionPcs
    /\ TransitionCall(t)[1] = TransitionCall(w)[1]
    /\ TransitionCall(t)[2] = TransitionCall(w)[2]
    /\ TransitionCall(t)[3] # TransitionCall(t)[2]
    /\ TransitionCall(w)[3] # TransitionCall(w)[2]

StateEdges ==
    {<<NEW_, AGREED>>, <<AGREED, IDLE>>, <<IDLE, SEARCHING>>,
     <<SEARCHING, CHATTING>>, <<CHATTING, RATING>>, <<RATING, IDLE>>,
     <<SEARCHING, IDLE>>, <<IDLE, CHATTING>>}

\* C14: every change of a stored user state follows an edge of the cycle,
\* and a committing pairing moves its two users to CHATTING from SEARCHING
\* (or IDLE) only, never from CHATTING or RATING.
C14_StateCycle ==
    [][/\ \A u \in Users :
            db'.current_state[u] # db.current_state[u] =>
               <<db.current_state[u], db'.current_state[u]>> \in StateEdges
       /\ \A t \in Tasks :
            PairingCommits(t) =>
               /\ db.current_state[task[t].user_id] \in {SEARCHING, IDLE}
               /\ db.current_state[task[t].partner_id] \in {SEARCHING, IDLE}]_vars

\* C15: a user holds a partner reference only in state CHATTING or RATING,
\* and a user in state CHATTING holds one.
C15_PartnerMatchesState ==
    \A u \in Users :
        /\ db.partner_id[u] # NULL => db.current_state[u] \in {CHATTING, RATING}
        /\ db.current_state[u] = CHATTING => db.partner_id[u] # NULL

\* C16: at most one open session row per unordered pair of users.
C16_OneSessionPerPair ==
    \A a \in Users, b \in Users : Cardinality(ChatsOfPair(db, a, b)) <= 1

\* The pool entries of user u.
EntriesOf(d, u) == {w \in d.waiting_users : w.user_id = u}

\* C17: the pool holds at most one entry per user; join_waiting_pool leaves
\* exactly the new entry for its user and every other user's entry as it
\* was, so that a join of a user already in the pool replaces the entry and
\* keeps the number of entries.
C17_PoolOneEntryPerUser ==
    [][/\ \A u \in Users : Cardinality(EntriesOf(db', u)) <= 1
       /\ \A t \in Tasks :
            At(t, "sm_join") /\ Moves(t) =>
               LET u == task[t].user_id
               IN  /\ EntriesOf(db', u) = {waiting_row(u, task[t].gender_pref, now)}
                   /\ db'.waiting_users \ EntriesOf(db', u)
                         = db.waiting_users \ EntriesOf(db, u)
                   /\ InPool(db, u) =>
                         Cardinality(db'.waiting_users)
                            = Cardinality(db.waiting_users)]_vars

\* A user already in the pool is about to join again with another
\* preference or at a later time, while another user waits in the pool.
C17_Witness ==
    \E t \in Tasks :
        /\ task[t].pc = "sm_join"
        /\ InPool(db, task[t].user_id)
        /\ EntriesOf(db, task[t].user_id)
              # {waiting_row(task[t].user_id, task[t].gender_pref, now)}
        /\ \E w \in db.waiting_users : w.user_id # task[t].user_id

\* The history rows of user u about partner p.
HistoryOf(d, u, p) == {h \in d.match_history : h.user_id = u /\ h.partner_id = p}

\* C18: get_waiting_candidates(u) returns exactly the pool entries of the
\* users other than u that have no history row (u, p) later than
\* now - history_window; an entry whose history row is at or before the
\* cutoff, or that has no history with u, is returned.
C18_CandidatesExact ==
    \A u \in Users :
        LET cutoff == now - MATCH_HISTORY_WINDOW_SECONDS
            result == get_waiting_candidates(db, u, now)
        IN  /\ result =
                  {candidate_row(w) : w \in {x \in db.waiting_users :
                      /\ x.user_id # u
                      /\ ~\E h \in HistoryOf(db, u, x.user_id) :
                            h.last_matched_at > cutoff}}
            /\ \A w \in db.waiting_users :
                  /\ w.user_id # u
                  /\ \A h \in HistoryOf(db, u, w.user_id) : h.last_matched_at <= cutoff
                  => candidate_row(w) \in result
            /\ \A r \in result : r.user_id # u /\ InPool(db, r.user_id)

\* A requester that joined the pool at the present time has scanned and
\* been given a waiting partner whose history row with the requester lies
\* exactly at the cutoff.
C18_Witness ==
    \E t \in Tasks :
        /\ task[t].pc = "cm_begin"
        /\ \E w \in EntriesOf(db, task[t].user_id) : w.joined_at = now
        /\ InPool(db, task[t].partner_id)
        /\ \E h \in HistoryOf(db, task[t].user_id, task[t].partner_id) :
              h.last_matched_at = now - MATCH_HISTORY_WINDOW_SECONDS

\* C19: match history is symmetric.  Every row (a, b) has a row (b, a) with
\* the same last_matched_at, and there is one row per directed pair.
C19_HistorySymmetric ==
    /\ \A h \in db.match_history :
          \E g \in db.match_history :
             /\ g.user_id = h.partner_id
             /\ g.partner_id = h.user_id
             /\ g.last_matched_at = h.last_matched_at
    /\ \A a \in Users, b \in Users : Cardinality(HistoryOf(db, a, b)) <= 1

\* The same pair has been paired twice, the second time when the clock had
\* advanced: both of its sessions are open, and the history holds one row per
\* direction, both with the time of the second pairing.
C19_Witness ==
    \E a \in Users, b \in Users :
        /\ Cardinality(ChatsOfPair(db, a, b)) = 2
        /\ now = MaxTime
        /\ HistoryOf(db, a, b) = {[user_id |-> a, partner_id |-> b,
                                    last_matched_at |-> now]}
        /\ HistoryOf(db, b, a) = {[user_id |-> b, partner_id |-> a,
                                    last_matched_at |-> now]}

\* C20: a requester is paired only with a mutually compatible candidate: at
\* the commit of a pairing the candidate's stored preference admits the
\* requester's gender and the requester's preference admits the candidate's
\* gender.  A scan over a pool without a compatible candidate returns no
\* partner and leaves the store, the requester's entry and state SEARCHING
\* included, as it is.
C20_MutualCompatibility ==
    [][\A t \in Tasks :
         /\ PairingCommits(t) =>
               \A w \in EntriesOf(db, task[t].partner_id) :
                  Compatible(task[t].user_id, task[t].gender_pref, w)
         /\ /\ At(t, "sm_scan")
            /\ Moves(t)
            /\ \A w \in db.waiting_users :
                  w.user_id # task[t].user_id =>
                     ~Compatible(task[t].user_id, task[t].gender_pref, w)
            => /\ task'[t].pc = "idle"
               /\ db' = db]_vars

\* Task t ends start_matchmaking without a pairing: its scan finds nobody, its
\* pairing returns 0, or it takes the last step after such a return.
EndsUnmatched(t) ==
    \/ At(t, "sm_scan") /\ task'[t].pc = "idle"
    \/ PairingReturns(t) /\ task'[t].chat_id = 0
    \/ At(t, "sm_result") /\ task[t].chat_id = 0 /\ Moves(t)

\* No other running handler works on the user of task t, and nobody has
\* paired or cancelled that user since it started to search.
Undisturbed(d, t) ==
    /\ \A w \in Tasks \ {t} :
          task[w].user_id # task[t].user_id /\ task[w].partner_id # task[t].user_id
    /\ d.current_state[task[t].user_id] = SEARCHING
    /\ d.partner_id[task[t].user_id] = NULL

Reduction(a, b) ==
    (a.streak - b.streak) + (a.game - b.game) + (a.gift - b.gift)
        + (a.rating - b.rating)

\* C22: deduct_sunflowers_smart(u, amount) with amount > 0, called in any
\* reachable ledger: if the reported total is less than amount it returns
\* false and the ledger is as before; otherwise it returns true, the reported
\* balances of the four sources go down by amount in sum, and no source's
\* ledger sum is driven below zero (a sum that was not negative is not
\* negative afterwards, a sum that was negative is not lowered).
C22_SmartDebitContract ==
    \A u \in LedgerUsers, amount \in DebitAmounts :
        LET before == get_sunflower_balance(db, u)
            call   == deduct_sunflowers_smart(db, u, amount)
            after  == get_sunflower_balance(call.store, u)
        IN  IF before.total < amount
            THEN ~call.ok /\ call.store = db
            ELSE /\ call.ok
                 /\ Reduction(before, after) = amount
                 /\ \A s \in Sources :
                       LedgerSum(call.store, u, s) >= Min2(0, LedgerSum(db, u, s))

\* A ledger in which one smart debit fails, and another succeeds and takes
\* from more than one source.
C22_Witness ==
    \E u \in LedgerUsers, small \in DebitAmounts, large \in DebitAmounts :
        LET before == get_sunflower_balance(db, u)
            after  == get_sunflower_balance(
                          deduct_sunflowers_smart(db, u, small).store, u)
        IN  /\ ~deduct_sunflowers_smart(db, u, large).ok
            /\ deduct_sunflowers_smart(db, u, small).ok
            /\ Cardinality({s \in Sources : after[s] < before[s]}) >= 2

\* The order the sources are to be consumed in; what a call took from the
\* i-th source of that order, by the reported balances before and after, and
\* what it took from the sources before it.
PriorityOrder == <<"game", "gift", "rating", "streak">>

Taken(before, after, i) == before[PriorityOrder[i]] - after[PriorityOrder[i]]

RECURSIVE TakenBefore(_, _, _)
TakenBefore(before, after, i) ==
    IF i <= 1 THEN 0
    ELSE Taken(before, after, i - 1) + TakenBefore(before, after, i - 1)

\* The scenario credit(u, game, 10), credit(u, rating, 20), smart debit of 25.
C23_Scenario ==
    LET credited == add_sunflowers(add_sunflowers(EmptyStore, 1, 10, "game"),
                                   1, 20, "rating")
        call     == deduct_sunflowers_smart(credited, 1, 25)
    IN  /\ call.ok
        /\ get_sunflower_balance(call.store, 1) =
               [streak |-> 0, game |-> 0, gift |-> 0, rating |-> 5, total |-> 5]

\* C23: a successful deduct_sunflowers_smart takes from the sources in the
\* order game, gift, rating, streak, from each the minimum of what the source
\* holds and what is still to be taken; a source is debited only if every
\* source before it ends at balance zero; the scenario with game 10,
\* rating 20 and a debit of 25 ends with game 0, rating 5, gift 0, streak 0,
\* total 5.
C23_DebitPriorityOrder ==
    /\ C23_Scenario
    /\ \A u \in LedgerUsers, amount \in DebitAmounts :
          LET before == get_sunflower_balance(db, u)
              call   == deduct_sunflowers_smart(db, u, amount)
              after  == get_sunflower_balance(call.store, u)
          IN  call.ok =>
                \A i \in 1 .. 4 :
                   /\ Taken(before, after, i) =
                         Min2(before[PriorityOrder[i]],
                              amount - TakenBefore(before, after, i))
                   /\ Taken(before, after, i) > 0 =>
                         \A j \in 1 .. (i - 1) :
                            after[PriorityOrder[j]] = 0

\* A ledger in which a smart debit empties the game source and takes the
\* rest from the rating source, which keeps a remainder.
C23_Witness ==
    \E u \in LedgerUsers, amount \in DebitAmounts :
        LET before == get_sunflower_balance(db, u)
            call   == deduct_sunflowers_smart(db, u, amount)
            after  == get_sunflower_balance(call.store, u)
        IN  /\ call.ok
            /\ before.game > 0 /\ after.game = 0
            /\ before.gift = 0
            /\ after.rating < before.rating /\ after.rating > 0

\* C24: a smart debit that runs concurrently with another smart debit or
\* with reset_streak_sunflowers of the same user behaves as in some serial
\* order of the calls: none of its removals takes more than the source holds
\* at that moment, so that no step of a smart debit makes a source's ledger
\* sum negative or lowers a negative one.
C24_DebitsSerializable ==
    [][\A t \in Tasks :
         task[t].handler = "debit" /\ task'[t] # task[t] =>
            \A s \in Sources :
               LedgerSum(db', task[t].user_id, s) >=
                  Min2(0, LedgerSum(db, task[t].user_id, s))]_vars

\* C25: add_sunflowers(u, amount, source) in any reachable ledger appends
\* nothing when amount <= 0; when amount > 0 it appends one entry of that
\* amount, the reported balance of the source goes up by exactly amount, and
\* the other sources of u and the balances of every other user are as before.
C25_CreditContract ==
    \A u \in LedgerUsers, amount \in CreditAmounts, s \in Sources :
        LET after == add_sunflowers(db, u, amount, s)
        IN  IF amount <= 0
            THEN after = db
            ELSE /\ after.sunflower_ledger =
                       db.sunflower_ledger (+) SetToBag({<<u, s, amount>>})
                 /\ get_sunflower_balance(after, u)[s] =
                       get_sunflower_balance(db, u)[s] + amount
                 /\ \A o \in Sources \ {s} :
                       get_sunflower_balance(after, u)[o] =
                          get_sunflower_balance(db, u)[o]
                 /\ \A v \in LedgerUsers \ {u} :
                       get_sunflower_balance(after, v) = get_sunflower_balance(db, v)

\* C26: get_sunflower_balance reports, for each of the four sources, the sum
\* of the user's entries of the source where that sum is positive and zero
\* otherwise, and as total the sum of the four reported values; no reported
\* value is negative.
C26_BalanceFloored ==
    \A u \in LedgerUsers :
        LET balance == get_sunflower_balance(db, u)
        IN  /\ DOMAIN balance = Sources \cup {"total"}
            /\ \A s \in Sources :
                  /\ balance[s] >= 0
                  /\ LedgerSum(db, u, s) >= 0 => balance[s] = LedgerSum(db, u, s)
                  /\ LedgerSum(db, u, s) < 0 => balance[s] = 0
            /\ balance.total =
                  balance.streak + balance.game + balance.gift + balance.rating
            /\ balance.total >= 0

\* A ledger after credits and debits in which one source of a user has a
\* negative sum and another a positive one.
C26_Witness ==
    \E u \in LedgerUsers, s \in Sources, o \in Sources :
        /\ LedgerSum(db, u, s) < 0
        /\ LedgerSum(db, u, o) > 0
        /\ \E r \in BagToSet(db.sunflower_ledger) : r[1] = u /\ r[3] < 0

(* ===================== termination of the transactions ================= *)
\* C27: under fair scheduling every started create_match_atomic ends, by its
\* commit or its rollback, with the result handed back to start_matchmaking,
\* and every started end_chat_atomic ends, by its commit or its rollback,
\* with the handler going on after it, however many pairings and teardowns
\* of overlapping users run at the same time.
C27_TransactionsTerminate ==
    \A t \in Tasks :
        /\ (task[t].pc \in CmPcs) ~> (task[t].pc = "sm_result")
        /\ (task[t].pc \in EcPcs) ~> (task[t].pc = "td_self")

\* A pairing holds the write lock in the middle of its statements while a
\* teardown that involves one of its users waits at BEGIN IMMEDIATE.
C27_Witness ==
    \E t \in Tasks, w \in Tasks :
        /\ task[t].pc \in CmPcs \ {"cm_begin"}
        /\ lock = t
        /\ task[w].pc = "ec_begin"
        /\ {task[w].user_id, task[w].partner_id}
              \cap {task[t].user_id, task[t].partner_id} # {}

(* ============================ onboarding =============================== *)
\* The steps of select_gender for a user without a row: the user is created
\* in NEW, then moved to AGREED, then to IDLE.
OnboardingPath(t) ==
    LET u == task[t].user_id
    IN  /\ At(t, "sg_create") /\ task'[t] # task[t] /\ ~user_exists(db, u) =>
              /\ user_exists(db', u)
              /\ db'.current_state[u] = NEW_
              /\ task'[t].pc = "sg_agree"
        /\ At(t, "sg_agree") /\ task'[t] # task[t] =>
              /\ get_user_state(db, u) = NEW_
              /\ db'.current_state[u] = AGREED
              /\ task'[t].pc = "sg_idle"
        /\ At(t, "sg_idle") /\ task'[t] # task[t] =>
              /\ get_user_state(db, u) = AGREED
              /\ db'.current_state[u] = IDLE

\* C28: gender selection by a user without a row creates the user in NEW and
\* moves it through AGREED to IDLE; a user that exists keeps existing, a user
\* that has left NEW is never in NEW again, one that has left AGREED never in
\* NEW or AGREED again, whatever operation runs; and a gender selection by a
\* user that is IDLE, SEARCHING, CHATTING or RATING changes nothing in the
\* store, so it resets no such user to IDLE.
C28_OnboardingOnce ==
    [][/\ \A t \in Tasks : OnboardingPath(t)
       /\ \A u \in Users :
             user_exists(db, u) =>
                /\ user_exists(db', u)
                /\ db.current_state[u] # NEW_ => db'.current_state[u] # NEW_
                /\ db.current_state[u] \notin {NEW_, AGREED} =>
                      db'.current_state[u] \notin {NEW_, AGREED}
       /\ \A t \in Tasks :
             /\ task[t].handler = "gender"
             /\ task'[t] # task[t]
             /\ get_user_state(db, task[t].user_id)
                   \in {IDLE, SEARCHING, CHATTING, RATING}
             => db' = db /\ task'[t].pc = "idle"]_vars

\* A user that was onboarded by its gender selection is CHATTING while a
\* repeated gender-selection callback of that user is about to run.
C28_Witness ==
    \E t \in Tasks :
        /\ task[t].handler = "gender"
        /\ task[t].pc = "sg_create"
        /\ task[t].user_id \in NewUsers
        /\ get_user_state(db, task[t].user_id) = CHATTING

ClosedSessions(d, e, a, b) == ChatsOfPair(d, a, b) \ ChatsOfPair(e, a, b)

\* C30: every teardown that commits creates, in each direction of its pair,
\* exactly as many pending-rating obligations as it closes sessions of the
\* pair, so that a session that is created and torn down leaves one
\* obligation per direction however the /next and /stop handlers of the two
\* participants interleave.
C30_ObligationsPerSession ==
    [][\A t \in Tasks :
         TeardownCommits(t) =>
            LET a == task[t].user_id
                b == task[t].partner_id
                closed == Cardinality(ClosedSessions(db, db', a, b))
            IN  /\ closed <= 1
                /\ Pending(db', a, b) = Pending(db, a, b) + closed
                /\ Pending(db', b, a) = Pending(db, b, a) + closed]_vars

(* ================= further invariants of the sessions ================== *)
\* C31: every user that has a waiting-pool entry is in state SEARCHING.
C31_PoolOnlySearching ==
    \A u \in Users : InPool(db, u) => db.current_state[u] = SEARCHING

\* C32: both users of every open session are in state CHATTING, so a user's
\* state leaves CHATTING only after the user's session row has been deleted.
C32_SessionUsersChatting ==
    \A c \in db.active_chats :
        /\ db.current_state[c.user_a] = CHATTING
        /\ db.current_state[c.user_b] = CHATTING

\* C33: partner references are symmetric: if the partner of a is b, then
\* the partner of b is a.
C33_PartnerSymmetric ==
    \A a \in Users, b \in Users :
        db.partner_id[a] = b => db.partner_id[b] = a

\* C34: every user is a member of at most one open session row.
C34_OneSessionPerUser ==
    \A u \in Users :
        Cardinality({c \in db.active_chats : c.user_a = u \/ c.user_b = u}) <= 1

(* ========================== leaving RATING ============================= *)
\* C35: no user is stranded in RATING: a user that is in RATING while the
\* bot still accepts updates returns to IDLE (or the bot has stopped
\* accepting updates), when every running handler is resumed and the user
\* answers every rating prompt shown to them.
C35_RatingEndsInIdle ==
    \A u \in Users :
        (db.current_state[u] = RATING /\ ops < MaxOps)
            ~> (db.current_state[u] = IDLE \/ ops = MaxOps)

(* ======================= the frame of a rating ========================= *)
\* C36: a step of handle_rating changes no partner reference, no pool entry
\* and no session, and no user's state, except that its last step moves the
\* rater from RATING to IDLE; so a rater that is IDLE, SEARCHING or CHATTING
\* keeps its state, and the state of the rated user is never changed.
C36_RatingFrame ==
    [][\A t \in Tasks :
         task[t].handler = "rate" /\ task'[t] # task[t] =>
            /\ db'.partner_id = db.partner_id
            /\ db'.waiting_users = db.waiting_users
            /\ db'.active_chats = db.active_chats
            /\ \/ db'.current_state = db.current_state
               \/ /\ At(t, "rate_idle")
                  /\ db.current_state[task[t].user_id] = RATING
                  /\ db'.current_state =
                        [db.current_state EXCEPT ![task[t].user_id] = IDLE]]_vars

\* The last step of handle_rating is about to run for a rater that has
\* meanwhile searched again and is SEARCHING or CHATTING.
C36_Witness ==
    \E t \in Tasks :
        /\ task[t].handler = "rate"
        /\ task[t].pc = "rate_idle"
        /\ db.current_state[task[t].user_id] \in {SEARCHING, CHATTING}

(* ===================== games after a teardown ========================== *)
\* C37: when a teardown of the session cid commits, every game of cid is
\* marked ended, get_active_game(cid) returns none from then on, and the
\* games that have a winner are as they were.
C37_NoActiveGameAfterTeardown ==
    [][\A t \in Tasks :
         TeardownCommits(t) /\ task[t].chat_id # NULL =>
            /\ \A g \in db'.active_games : g.chat_id = task[t].chat_id => g.ended
            /\ get_active_game(db', task[t].chat_id) = <<>>
            /\ \A g \in db.active_games :
                  g.winner_id # NULL => g \in db'.active_games]_vars

(* ========================= the end of /next ============================ *)
\* The partner a /next handler is skipping or has skipped, NULL before it is
\* read and when there was none.
Skipped(t) ==
    IF task[t].handler # "next" THEN NULL
    ELSE IF task[t].skipped # NULL THEN task[t].skipped
    ELSE IF task[t].pc \in EcPcs \cup {"td_self", "td_partner", "td_idle"}
         THEN task[t].partner_id
    ELSE NULL

\* The /next handler of a user who had a partner returns from its new search.
NextCompletes(t) ==
    /\ task[t].handler = "next"
    /\ task[t].skipped # NULL
    /\ task'[t] = IdleTask

\* C38: when /next of a user with partner P completes, the user is SEARCHING
\* with a pool entry and no partner, or CHATTING with a partner other than P,
\* and P has no partner reference; no step of the handler adds P to the pool.
C38_NextOutcome ==
    [][\A t \in Tasks :
         /\ NextCompletes(t) =>
               LET u == task[t].user_id
                   P == task[t].skipped
               IN  /\ \/ /\ db'.current_state[u] = SEARCHING
                         /\ InPool(db', u)
                         /\ db'.partner_id[u] = NULL
                      \/ /\ db'.current_state[u] = CHATTING
                         /\ db'.partner_id[u] \notin {NULL, P}
                   /\ db'.partner_id[P] = NULL
         /\ Skipped(t) # NULL /\ Moves(t) =>
               (InPool(db', Skipped(t)) => InPool(db, Skipped(t)))]_vars

(* ====================== the temp premium cooldown ====================== *)
\* A purchase of u that has paid and has not yet recorded its use.
PaidNotUsed(t, u) ==
    /\ task[t].handler = "buy_temp"
    /\ task[t].user_id = u
    /\ task[t].pc = "bt_use"

\* Task t pays for a grant of its user.
Pays(t) == At(t, "bt_pay") /\ task'[t].pc = "bt_use"

\* Task t activates the grant of its user.
Activates(t) == At(t, "bt_use") /\ task'[t].pc = "bt_premium"

====
